---- MODULE Spec2Model ----
(***************************************************************************)
(* A model of the CLIP aesthetic scorer (backend/app/services/             *)
(* aesthetic_scorer.py) and of the upload flow that calls it               *)
(* (backend/app/api/upload.py).                                            *)
(*                                                                         *)
(* Numbers.  The code computes in binary floating point; the model         *)
(* computes the same expressions exactly, in fixed point:                  *)
(*   - a cosine similarity s is the integer 100*s  (SimUnit),              *)
(*   - a weight w is the integer 100*w,                                    *)
(*   - a weighted raw score is therefore the integer 10000*weighted,       *)
(*   - a score x (0..100) is the integer 560*x (ScoreUnit); 560 makes      *)
(*     every division of the calibration exact.                            *)
(* Strings that the code lower-cases are sequences of one-character        *)
(* strings, so that lower() is computed and not assumed.                   *)
(***************************************************************************)
EXTENDS Integers, Sequences, FiniteSets, TLC

SimUnit == 10 * 10
ScoreUnit == 7 * 80
WeightedUnit == SimUnit * 100

\* Python's None, for an object reference (objects are numbered from 1).
None == 0

(***************************************************************************)
(* Bounds of the model.                                                    *)
(***************************************************************************)
NumThreads == 2
MaxCalls == 2

Threads == 1..NumThreads

(***************************************************************************)
(* str.lower() on the characters the model uses.                           *)
(***************************************************************************)
UpperChars == <<"A","B","C","D","E","F","G","H","I","J","K","L","M",
                "N","O","P","Q","R","S","T","U","V","W","X","Y","Z">>
LowerChars == <<"a","b","c","d","e","f","g","h","i","j","k","l","m",
                "n","o","p","q","r","s","t","u","v","w","x","y","z">>

LowerChar(c) ==
    IF \E i \in DOMAIN UpperChars : UpperChars[i] = c
    THEN LowerChars[CHOOSE i \in DOMAIN UpperChars : UpperChars[i] = c]
    ELSE c

Lower(s) == [i \in DOMAIN s |-> LowerChar(s[i])]

(***************************************************************************)
(* The prompt bank.                                                        *)
(***************************************************************************)
QUICK_PROMPTS ==
    << "a high quality professional photograph",
       "an aesthetically pleasing image with good composition" >>

DETAILED_PROMPTS ==
    [ technical   |-> << "sharp focus and excellent exposure",
                         "professional color grading and contrast" >>,
      composition |-> << "well-balanced composition with strong visual structure",
                         "compelling framing following photographic principles" >>,
      lighting    |-> << "beautiful natural lighting with great atmosphere",
                         "dramatic light creating visual interest" >> ]

K_landscape    == <<"l","a","n","d","s","c","a","p","e">>
K_cityscape    == <<"c","i","t","y","s","c","a","p","e">>
K_architecture == <<"a","r","c","h","i","t","e","c","t","u","r","e">>
K_nature       == <<"n","a","t","u","r","e">>
K_sunset       == <<"s","u","n","s","e","t">>
K_night        == <<"n","i","g","h","t">>
K_other        == <<"o","t","h","e","r">>

CATEGORY_PROMPTS ==
    (K_landscape :> << "a stunning landscape photograph with dramatic scenery",
                       "breathtaking natural vista with excellent depth" >>)
 @@ (K_cityscape :> << "an impressive urban photograph with compelling architecture",
                       "striking city skyline with great composition" >>)
 @@ (K_architecture :> << "beautiful architectural photography with clean lines",
                          "well-composed building photograph with strong geometry" >>)
 @@ (K_nature :> << "captivating nature photography with vibrant details",
                    "beautiful natural scene with excellent clarity" >>)
 @@ (K_sunset :> << "breathtaking sunset photograph with stunning colors",
                    "beautiful golden hour scene with dramatic sky" >>)
 @@ (K_night :> << "impressive night photography with excellent exposure",
                   "stunning low-light photograph with great atmosphere" >>)
 @@ (K_other :> << "an interesting and well-executed photograph",
                   "compelling photography with strong visual appeal" >>)

NEGATIVE_PROMPTS ==
    << "a poorly composed photograph with bad framing",
       "a blurry low-quality image with poor exposure" >>

WEIGHTS_Heavy ==
    [ universal |-> 20, technical |-> 25, composition |-> 25, lighting |-> 15,
      category |-> 25 ]
WEIGHTS ==
    [ universal |-> 20, technical |-> 25, composition |-> 25,
      lighting |-> 15, category |-> 15 ]

QUICK_THRESHOLD == 20

min_sim == 16
avg_sim == 23
good_sim == 26
excellent_sim == 30

NEGATIVE_THRESHOLD == 22

DEFAULT_SCORE == 70

METHOD_QUICK == "CLIP-ViT-B/32-quick"
METHOD_DETAILED == "CLIP-ViT-B/32-detailed"
MODEL_NAME == "ViT-B/32"


Max(a, b) == IF a >= b THEN a ELSE b
Min(a, b) == IF a <= b THEN a ELSE b

(***************************************************************************)
(* Images.  The content of an image file is its kind and, for the CLIP     *)
(* checkpoint, its cosine similarity to every prompt batch of the bank     *)
(* (what encode_image followed by the normalised dot product yields).      *)
(*   valid      opens and decodes                                          *)
(*   truncated  the header opens (size is known), the pixel data does not  *)
(*              decode                                                     *)
(*   zero_dim   opens with a zero width or height                          *)
(*   garbage    does not open as an image                                  *)
(***************************************************************************)
CategoryKeys == DOMAIN CATEGORY_PROMPTS

CategoryOffset(key) ==
    CASE key = K_other -> 0
      [] key = K_landscape -> 1
      [] key = K_cityscape -> 2
      [] key = K_architecture -> 3
      [] key = K_nature -> 4
      [] key = K_sunset -> 5
      [] key = K_night -> 6

\* The name of a category's prompt batch in an image's similarity table.
CategoryTag(key) ==
    CASE key = K_other -> "category_other"
      [] key = K_landscape -> "category_landscape"
      [] key = K_cityscape -> "category_cityscape"
      [] key = K_architecture -> "category_architecture"
      [] key = K_nature -> "category_nature"
      [] key = K_sunset -> "category_sunset"
      [] key = K_night -> "category_night"

\* The name of the prompt batch with this text.
BatchTag(prompts) ==
    CASE prompts = QUICK_PROMPTS -> "quick"
      [] prompts = DETAILED_PROMPTS.technical -> "technical"
      [] prompts = DETAILED_PROMPTS.composition -> "composition"
      [] prompts = DETAILED_PROMPTS.lighting -> "lighting"
      [] prompts = NEGATIVE_PROMPTS -> "negative"
      [] OTHER -> CategoryTag(CHOOSE key \in CategoryKeys :
                                  CATEGORY_PROMPTS[key] = prompts)

\* An image whose similarities are q (quick), t, c, l (detailed), n (negative)
\* and, for the category with offset i, k + i.
MakeImage(kind, q, t, c, l, k, n) ==
    [ kind |-> kind,
      sim  |-> [ quick |-> q, technical |-> t, composition |-> c,
                 lighting |-> l, negative |-> n,
                 category_other        |-> k + CategoryOffset(K_other),
                 category_landscape    |-> k + CategoryOffset(K_landscape),
                 category_cityscape    |-> k + CategoryOffset(K_cityscape),
                 category_architecture |-> k + CategoryOffset(K_architecture),
                 category_nature       |-> k + CategoryOffset(K_nature),
                 category_sunset       |-> k + CategoryOffset(K_sunset),
                 category_night        |-> k + CategoryOffset(K_night) ] ]

(***************************************************************************)
(* Embeddings and similarity.  The embedding of a prompt batch under a     *)
(* checkpoint is determined by the checkpoint and the batch's text; the    *)
(* model keeps the checkpoint and the batch's name.                        *)
(***************************************************************************)
\* _encode_text_batch
EncodeTextBatch(model, prompts) == [ model |-> model, batch |-> BatchTag(prompts) ]

\* _calculate_similarity: mean cosine similarity of the image to the batch.
CalculateSimilarity(image_embedding, text_embeddings) ==
    image_embedding.sim[text_embeddings.batch]

(***************************************************************************)
(* evaluate_image, stage 1.                                                *)
(***************************************************************************)
\* if quick_score < self.QUICK_THRESHOLD
BelowThresholdLoose(quick_score) == quick_score <= QUICK_THRESHOLD
BelowThreshold(quick_score) == quick_score < QUICK_THRESHOLD

\* scaled_score = ((quick_score - 0.10) / (0.20 - 0.10)) * 20 + 20
\* scaled_score = max(20, min(40, scaled_score))
QuickScaledFromZero(quick_score) ==
    Max(20 * ScoreUnit,
        Min(40 * ScoreUnit,
            ((quick_score - 0) * 20 * ScoreUnit) \div (20 - 0) + 20 * ScoreUnit))
QuickScaledUnclamped(quick_score) ==
    ((quick_score - 10) * 20 * ScoreUnit) \div (20 - 10) + 20 * ScoreUnit
QuickScaled(quick_score) ==
    Max(20 * ScoreUnit,
        Min(40 * ScoreUnit,
            ((quick_score - 10) * 20 * ScoreUnit) \div (20 - 10) + 20 * ScoreUnit))

(***************************************************************************)
(* evaluate_image, stage 2.                                                *)
(***************************************************************************)
\* category_key = category.lower() if category.lower() in CATEGORY_PROMPTS else "other"
CategoryKeyNoLower(category) ==
    IF category \in DOMAIN CATEGORY_PROMPTS THEN category ELSE K_other
CategoryKey(category) ==
    IF Lower(category) \in DOMAIN CATEGORY_PROMPTS THEN Lower(category) ELSE K_other

WeightedRawScore(quick_score, technical_score, composition_score, lighting_score, category_score) ==
    quick_score * WEIGHTS.universal +
    technical_score * WEIGHTS.technical +
    composition_score * WEIGHTS.composition +
    lighting_score * WEIGHTS.lighting +
    category_score * WEIGHTS.category

\* a similarity breakpoint in the unit of the weighted raw score
W(sim) == sim * (WeightedUnit \div SimUnit)

\* Map [0.16, 0.23] to [40, 65]
PoorBranch(weighted_raw_score) ==
    ((weighted_raw_score - W(min_sim)) * 25 * ScoreUnit)
        \div (W(avg_sim) - W(min_sim)) + 40 * ScoreUnit

\* Map [0.23, 0.26] to [65, 80]
GoodBranchOffset(weighted_raw_score) ==
    ((weighted_raw_score - W(avg_sim)) * 15 * ScoreUnit)
        \div (W(good_sim) - W(avg_sim)) + 66 * ScoreUnit
GoodBranch(weighted_raw_score) ==
    ((weighted_raw_score - W(avg_sim)) * 15 * ScoreUnit)
        \div (W(good_sim) - W(avg_sim)) + 65 * ScoreUnit

\* Map [0.26, 0.30] to [80, 95]
ExcellentBranchLow(weighted_raw_score) ==
    ((weighted_raw_score - W(good_sim)) * 15 * ScoreUnit)
        \div (W(excellent_sim) - W(good_sim)) + 70 * ScoreUnit
ExcellentBranch(weighted_raw_score) ==
    ((weighted_raw_score - W(good_sim)) * 15 * ScoreUnit)
        \div (W(excellent_sim) - W(good_sim)) + 80 * ScoreUnit

\* The progressive mapping of the weighted raw score.
ProgressiveMapping(weighted_raw_score) ==
    IF weighted_raw_score < W(avg_sim)
    THEN PoorBranch(weighted_raw_score)
    ELSE IF weighted_raw_score < W(good_sim)
    THEN GoodBranch(weighted_raw_score)
    ELSE ExcellentBranch(weighted_raw_score)

\* negative_penalty = (negative_score - 0.22) * 20 if negative_score > 0.22 else 0
NegativePenaltySigned(negative_score) ==
    ((negative_score - NEGATIVE_THRESHOLD) * 20 * ScoreUnit) \div SimUnit
NegativePenalty(negative_score) ==
    IF negative_score > NEGATIVE_THRESHOLD
    THEN ((negative_score - NEGATIVE_THRESHOLD) * 20 * ScoreUnit) \div SimUnit
    ELSE 0

\* aesthetic_score = max(30, min(98, aesthetic_score))
ClampBeforePenalty(mapped, negative_penalty) ==
    Max(30 * ScoreUnit, Min(98 * ScoreUnit, mapped)) - negative_penalty
ClampDetailed(mapped, negative_penalty) ==
    Max(30 * ScoreUnit, Min(98 * ScoreUnit, mapped - negative_penalty))

\* round(x, 1): to the nearest tenth, a tie to the even tenth
Round1(x) ==
    LET tenth == ScoreUnit \div 10
        r     == x % tenth
        lo    == x - r
    IN  IF 2 * r < tenth THEN lo
        ELSE IF 2 * r > tenth THEN lo + tenth
        ELSE IF (lo \div tenth) % 2 = 0 THEN lo ELSE lo + tenth

MappingTierInclusive(weighted_raw_score) ==
    IF weighted_raw_score <= W(avg_sim) THEN "poor"
    ELSE IF weighted_raw_score <= W(good_sim) THEN "good"
    ELSE "excellent"
MappingTier(weighted_raw_score) ==
    IF weighted_raw_score < W(avg_sim) THEN "poor"
    ELSE IF weighted_raw_score < W(good_sim) THEN "good"
    ELSE "excellent"


(***************************************************************************)
(* State.                                                                  *)
(***************************************************************************)
VARIABLES
    hw,               \* torch.cuda.is_available(), torch.backends.mps.is_available()
    files,            \* the file system: path -> image content
    scorer_instance,  \* the module global _scorer_instance: None or an object id
    instances,        \* the CLIPAestheticScorer objects constructed so far
    thread,           \* the frame of each caller of calculate_aesthetic_score
    calls,            \* calls of calculate_aesthetic_score started so far
    history,          \* the outcomes of evaluate_image so far
    request,          \* the frame of the upload_photo_spot handler
    db,               \* the photo_spots table: the committed rows, by id
    uploads,          \* POST /upload requests received so far
    health,           \* the frame of a GET /health request
    reply             \* the last response of the /api/spots endpoints

vars == << hw, files, scorer_instance, instances, thread, calls, history,
           request, db, uploads, health, reply >>

NoBreakdown == [ b \in {} |-> 0 ]

NoResult ==
    [ kind |-> "none", aesthetic_score |-> 0, breakdown |-> NoBreakdown,
      evaluation_method |-> "", error |-> "" ]

NoEmbedding == [ model |-> "", batch |-> "" ]
NoImage == MakeImage("none", 0, 0, 0, 0, 0, 0)

IdleFrame ==
    [ pc |-> "idle", image_path |-> "", category |-> <<>>,
      self |-> None, scorer |-> None, image_embedding |-> NoImage,
      quick_score |-> 0, breakdown |-> NoBreakdown,
      result |-> NoResult, ret |-> NoResult,
      computed |-> << >>,    \* the batches _calculate_similarity was called with
      encoded |-> 0 ]        \* calls of model.encode_image

\* What evaluate_image returns.
Returned(score, breakdown, method) ==
    [ kind |-> "ok", aesthetic_score |-> score, breakdown |-> breakdown,
      evaluation_method |-> method, error |-> "" ]

\* An exception leaving evaluate_image or get_aesthetic_scorer.
Raised(error) ==
    [ kind |-> "raised", aesthetic_score |-> 0, breakdown |-> NoBreakdown,
      evaluation_method |-> "", error |-> error ]

\* calculate_aesthetic_score: return result["aesthetic_score"], result["breakdown"];
\* except Exception as e: return 70.0, {"error": str(e)}
CalculateReturnPropagating(result) ==
    IF result.kind = "ok"
    THEN [ kind |-> "ok", aesthetic_score |-> result.aesthetic_score,
           breakdown |-> result.breakdown, evaluation_method |-> "", error |-> "" ]
    ELSE [ kind |-> "raised", aesthetic_score |-> 0, breakdown |-> NoBreakdown,
           evaluation_method |-> "", error |-> result.error ]
CalculateReturnSilent(result) ==
    IF result.kind = "ok"
    THEN [ kind |-> "ok", aesthetic_score |-> result.aesthetic_score,
           breakdown |-> result.breakdown, evaluation_method |-> "", error |-> "" ]
    ELSE [ kind |-> "ok", aesthetic_score |-> 0,
           breakdown |-> NoBreakdown,
           evaluation_method |-> "", error |-> "" ]
CalculateReturn(result) ==
    IF result.kind = "ok"
    THEN [ kind |-> "ok", aesthetic_score |-> result.aesthetic_score,
           breakdown |-> result.breakdown, evaluation_method |-> "", error |-> "" ]
    ELSE [ kind |-> "ok", aesthetic_score |-> DEFAULT_SCORE * ScoreUnit,
           breakdown |-> ("error" :> result.error),
           evaluation_method |-> "", error |-> "" ]

\* if device is None: cuda, else mps, else cpu
SelectDeviceMpsFirst(h) ==
    IF h.mps THEN "mps" ELSE IF h.cuda THEN "cuda" ELSE "cpu"
SelectDevice(h) ==
    IF h.cuda THEN "cuda" ELSE IF h.mps THEN "mps" ELSE "cpu"

\* The object right after clip.load: device, model and preprocess are set, the
\* embedding attributes do not exist yet (attrs is the set of attributes set).
NewScorer(device) ==
    [ attrs |-> { "device", "model", "preprocess" },
      device |-> device, model |-> MODEL_NAME, preprocess |-> MODEL_NAME,
      quick_embeddings |-> NoEmbedding,
      detailed_embeddings |-> [ d \in DOMAIN DETAILED_PROMPTS |-> NoEmbedding ],
      category_embeddings |-> [ c \in DOMAIN CATEGORY_PROMPTS |-> NoEmbedding ],
      negative_embeddings |-> NoEmbedding,
      loads |-> 1,             \* calls of clip.load for this object
      text_batches |-> 0 ]     \* calls of _encode_text_batch for this object

ScorerAttributes ==
    { "device", "model", "preprocess", "quick_embeddings", "detailed_embeddings",
      "category_embeddings", "negative_embeddings" }

\* One entry of the log: the call's inputs and what evaluate_image returned
\* or raised.
Log(t, outcome) ==
    history \cup { [ image_path |-> thread[t].image_path,
                     category |-> thread[t].category,
                     outcome |-> outcome ] }

\* No PhotoSpot (the handler has not built or returned one).
NoSpot ==
    [ id |-> None, category |-> << >>, image_url |-> "", thumbnail_url |-> "",
      aesthetic_score |-> 0, popularity_score |-> 0, is_active |-> FALSE ]

\* GET /health: no request, a request waiting for the event loop, or the
\* response sent.
IdleHealth == [ pc |-> "idle", status |-> 0 ]

\* The locals of upload_photo_spot and the response it ends with.
\* No /api/spots request has been answered yet.
NoReply ==
    [ op |-> "none", spot_id |-> None, hard_delete |-> FALSE, is_active |-> TRUE,
      status |-> 0, spots |-> {} ]

IdleRequest ==
    [ pc |-> "idle", content_type |-> << >>, photo |-> NoImage,
      category |-> << >>, file_path |-> "", thumbnail_path |-> "",
      thumbnail_created |-> FALSE, aesthetic_score |-> 0,
      score_breakdown |-> NoBreakdown, status |-> 0, detail |-> "",
      body |-> NoSpot ]

(***************************************************************************)
(* Inputs of the concurrent callers.                                       *)
(***************************************************************************)
C_Sunset   == <<"S","u","n","s","e","t">>
C_abstract == <<"a","b","s","t","r","a","c","t">>


GoodImage    == MakeImage("valid", 28, 28, 28, 28, 23, 25)
PoorImage    == MakeImage("valid", 15, 12, 14, 13, 12, 30)
CorruptImage == MakeImage("garbage", 0, 0, 0, 0, 0, 0)

\* The (image_path, category) pairs the callers pass.
CallInputs ==
    { << "good.jpg", C_Sunset >>, << "poor.jpg", C_abstract >>,
      << "corrupt.jpg", C_Sunset >> }

InitFiles ==
    ("good.jpg" :> GoodImage) @@ ("poor.jpg" :> PoorImage)
        @@ ("corrupt.jpg" :> CorruptImage)


(***************************************************************************)
(* calculate_aesthetic_score(image_path, category), as run by caller t.    *)
(***************************************************************************)
Frame(t) == thread[t]

\* The call leaves calculate_aesthetic_score with `result` of the scorer: the
\* frame's locals are gone, the caller holds what calculate_aesthetic_score
\* returned (ret); result keeps what the scorer itself returned or raised.
Leave(t, result) ==
    [ thread EXCEPT ![t] = [ IdleFrame EXCEPT !.pc = "returned",
                                              !.result = result,
                                              !.ret = CalculateReturn(result),
                                              !.computed = thread[t].computed,
                                              !.encoded = thread[t].encoded ] ]

\* A caller enters calculate_aesthetic_score.
Call(t) ==
    /\ Frame(t).pc \in { "idle", "returned" }
    /\ calls < MaxCalls
    /\ \E input \in CallInputs :
          thread' = [ thread EXCEPT ![t] =
                        [ IdleFrame EXCEPT !.pc = "get_check",
                                           !.image_path = input[1],
                                           !.category = input[2] ] ]
    /\ calls' = calls + 1
    /\ UNCHANGED << reply, health, request, db, uploads, hw, files, scorer_instance, instances, history >>

\* get_aesthetic_scorer: if _scorer_instance is None
GetCheckRebuilding(t) ==
    /\ Frame(t).pc = "get_check"
    /\ thread' = [ thread EXCEPT ![t].pc = "init_load" ]
    /\ UNCHANGED << reply, health, request, db, uploads, hw, files, scorer_instance, instances, calls, history >>
GetCheck(t) ==
    /\ Frame(t).pc = "get_check"
    /\ thread' = [ thread EXCEPT ![t].pc =
                     IF scorer_instance = None THEN "init_load" ELSE "get_return" ]
    /\ UNCHANGED << reply, health, request, db, uploads, hw, files, scorer_instance, instances, calls, history >>

\* CLIPAestheticScorer.__init__: device selection, clip.load, model.eval().
\* clip.load may fail; the exception leaves __init__ and get_aesthetic_scorer.
InitLoadPublishing(t) ==
    /\ Frame(t).pc = "init_load"
    /\ \E load_ok \in BOOLEAN :
          IF load_ok
          THEN /\ instances' = Append(instances, NewScorer(SelectDevice(hw)))
               /\ scorer_instance' = Len(instances) + 1
               /\ thread' = [ thread EXCEPT ![t].self = Len(instances) + 1,
                                            ![t].pc = "encode_quick" ]
          ELSE /\ instances' = instances
               /\ scorer_instance' = scorer_instance
               /\ thread' = Leave(t, Raised("RuntimeError: model unavailable"))
    /\ UNCHANGED << reply, health, request, db, uploads, hw, files, calls, history >>
InitLoad(t) ==
    /\ Frame(t).pc = "init_load"
    /\ \E load_ok \in BOOLEAN :
          IF load_ok
          THEN /\ instances' = Append(instances, NewScorer(SelectDevice(hw)))
               /\ thread' = [ thread EXCEPT ![t].self = Len(instances) + 1,
                                            ![t].pc = "encode_quick" ]
          ELSE /\ instances' = instances
               /\ thread' = Leave(t, Raised("RuntimeError: model unavailable"))
    /\ UNCHANGED << reply, health, request, db, uploads, hw, files, scorer_instance, calls, history >>

\* _encode_all_prompts: self.quick_embeddings = ...
EncodeQuick(t) ==
    /\ Frame(t).pc = "encode_quick"
    /\ LET self == Frame(t).self IN
         instances' = [ instances EXCEPT
                        ![self].attrs = @ \cup { "quick_embeddings" },
                        ![self].text_batches = @ + 1,
                        ![self].quick_embeddings =
                          EncodeTextBatch(instances[self].model, QUICK_PROMPTS) ]
    /\ thread' = [ thread EXCEPT ![t].pc = "encode_detailed" ]
    /\ UNCHANGED << reply, health, request, db, uploads, hw, files, scorer_instance, calls, history >>

\* _encode_all_prompts: self.detailed_embeddings[dimension] = ...
EncodeDetailed(t) ==
    /\ Frame(t).pc = "encode_detailed"
    /\ LET self == Frame(t).self IN
         instances' = [ instances EXCEPT
                        ![self].attrs = @ \cup { "detailed_embeddings" },
                        ![self].text_batches = @ + Cardinality(DOMAIN DETAILED_PROMPTS),
                        ![self].detailed_embeddings =
                          [ dimension \in DOMAIN DETAILED_PROMPTS |->
                              EncodeTextBatch(instances[self].model,
                                              DETAILED_PROMPTS[dimension]) ] ]
    /\ thread' = [ thread EXCEPT ![t].pc = "encode_category" ]
    /\ UNCHANGED << reply, health, request, db, uploads, hw, files, scorer_instance, calls, history >>

\* _encode_all_prompts: self.category_embeddings[category] = ...
EncodeCategory(t) ==
    /\ Frame(t).pc = "encode_category"
    /\ LET self == Frame(t).self IN
         instances' = [ instances EXCEPT
                        ![self].attrs = @ \cup { "category_embeddings" },
                        ![self].text_batches = @ + Cardinality(DOMAIN CATEGORY_PROMPTS),
                        ![self].category_embeddings =
                          [ category \in DOMAIN CATEGORY_PROMPTS |->
                              EncodeTextBatch(instances[self].model,
                                              CATEGORY_PROMPTS[category]) ] ]
    /\ thread' = [ thread EXCEPT ![t].pc = "encode_negative" ]
    /\ UNCHANGED << reply, health, request, db, uploads, hw, files, scorer_instance, calls, history >>

\* _encode_all_prompts: self.negative_embeddings = ...; __init__ returns.
EncodeNegative(t) ==
    /\ Frame(t).pc = "encode_negative"
    /\ LET self == Frame(t).self IN
         instances' = [ instances EXCEPT
                        ![self].attrs = @ \cup { "negative_embeddings" },
                        ![self].text_batches = @ + 1,
                        ![self].negative_embeddings =
                          EncodeTextBatch(instances[self].model, NEGATIVE_PROMPTS) ]
    /\ thread' = [ thread EXCEPT ![t].pc = "get_assign" ]
    /\ UNCHANGED << reply, health, request, db, uploads, hw, files, scorer_instance, calls, history >>

\* get_aesthetic_scorer: _scorer_instance = CLIPAestheticScorer()  (the store)
GetAssign(t) ==
    /\ Frame(t).pc = "get_assign"
    /\ scorer_instance' = Frame(t).self
    /\ thread' = [ thread EXCEPT ![t].pc = "get_return" ]
    /\ UNCHANGED << reply, health, request, db, uploads, hw, files, instances, calls, history >>

\* get_aesthetic_scorer: return _scorer_instance
GetReturn(t) ==
    /\ Frame(t).pc = "get_return"
    /\ thread' = [ thread EXCEPT ![t].scorer = scorer_instance,
                                 ![t].pc = "encode_image" ]
    /\ UNCHANGED << reply, health, request, db, uploads, hw, files, scorer_instance, instances, calls, history >>


(***************************************************************************)
(* evaluate_image(image_path, category) on the scorer the caller got.      *)
(***************************************************************************)
\* _encode_image: Image.open(path).convert("RGB"), preprocess, encode_image;
\* any exception is logged and re-raised.
EncodeImageSwallowing(path) ==
    IF path \in DOMAIN files /\ files[path].kind = "valid"
    THEN [ kind |-> "ok", embedding |-> files[path], error |-> "" ]
    ELSE [ kind |-> "ok", embedding |-> MakeImage("valid", 0, 0, 0, 0, 0, 0),
           error |-> "" ]
EncodeImageOutcome(path) ==
    IF path \notin DOMAIN files
    THEN [ kind |-> "raised", embedding |-> NoImage,
           error |-> "FileNotFoundError" ]
    ELSE IF files[path].kind # "valid"
    THEN [ kind |-> "raised", embedding |-> NoImage,
           error |-> "UnidentifiedImageError" ]
    ELSE [ kind |-> "ok", embedding |-> files[path], error |-> "" ]

\* image_embedding = self._encode_image(image_path)
EncodeImageReloading(t) ==
    /\ Frame(t).pc = "encode_image"
    /\ LET out == EncodeImageOutcome(Frame(t).image_path) IN
         IF out.kind = "ok"
         THEN /\ thread' = [ thread EXCEPT ![t].image_embedding = out.embedding,
                                           ![t].encoded = @ + 1,
                                           ![t].pc = "quick_filter" ]
              /\ history' = history
         ELSE /\ thread' = Leave(t, Raised(out.error))
              /\ history' = Log(t, Raised(out.error))
    /\ instances' = [ instances EXCEPT ![Frame(t).scorer].loads = @ + 1 ]
    /\ UNCHANGED << reply, health, request, db, uploads, hw, files, scorer_instance, calls >>
EncodeImagePoisoning(t) ==
    /\ Frame(t).pc = "encode_image"
    /\ LET out == EncodeImageOutcome(Frame(t).image_path) IN
         IF out.kind = "ok"
         THEN /\ thread' = [ thread EXCEPT ![t].image_embedding = out.embedding,
                                           ![t].encoded = @ + 1,
                                           ![t].pc = "quick_filter" ]
              /\ history' = history
              /\ instances' = instances
         ELSE /\ thread' = Leave(t, Raised(out.error))
              /\ history' = Log(t, Raised(out.error))
              /\ instances' = [ instances EXCEPT
                     ![Frame(t).scorer].quick_embeddings =
                         [ model |-> MODEL_NAME, batch |-> "negative" ] ]
    /\ UNCHANGED << reply, health, request, db, uploads, hw, files, scorer_instance, calls >>
EncodeImageShared(t) ==
    /\ Frame(t).pc = "encode_image"
    /\ LET out == EncodeImageOutcome(Frame(t).image_path) IN
         IF out.kind = "ok"
         THEN /\ thread' = [ u \in Threads |->
                   IF u = t
                   THEN [ thread[u] EXCEPT !.image_embedding = out.embedding,
                                           !.pc = "quick_filter" ]
                   ELSE IF thread[u].pc \in { "quick_filter", "early_exit",
                                              "detailed", "calibrate" }
                   THEN [ thread[u] EXCEPT !.image_embedding = out.embedding ]
                   ELSE thread[u] ]
              /\ history' = history
         ELSE /\ thread' = Leave(t, Raised(out.error))
              /\ history' = Log(t, Raised(out.error))
    /\ UNCHANGED << reply, health, request, db, uploads, hw, files, scorer_instance, instances, calls >>
EncodeImage(t) ==
    /\ Frame(t).pc = "encode_image"
    /\ LET out == EncodeImageOutcome(Frame(t).image_path) IN
         IF out.kind = "ok"
         THEN /\ thread' = [ thread EXCEPT ![t].image_embedding = out.embedding,
                                           ![t].encoded = @ + 1,
                                           ![t].pc = "quick_filter" ]
              /\ history' = history
         ELSE /\ thread' = Leave(t, Raised(out.error))
              /\ history' = Log(t, Raised(out.error))
    /\ UNCHANGED << reply, health, request, db, uploads, hw, files, scorer_instance, instances, calls >>

\* Stage 1: quick_score = self._calculate_similarity(image_embedding,
\* self.quick_embeddings); if quick_score < self.QUICK_THRESHOLD: ...
QuickFilterEager(t) ==
    /\ Frame(t).pc = "quick_filter"
    /\ LET text == instances[Frame(t).scorer].quick_embeddings IN
         IF "quick_embeddings" \notin instances[Frame(t).scorer].attrs
         THEN /\ thread' = Leave(t, Raised("AttributeError"))
              /\ history' = Log(t, Raised("AttributeError"))
         ELSE LET quick_score == CalculateSimilarity(Frame(t).image_embedding, text)
              IN /\ thread' = [ thread EXCEPT
                       ![t].quick_score = quick_score,
                       ![t].computed = @ \o << "quick", "technical", "composition",
                                               "lighting", "negative" >>,
                       ![t].pc = IF BelowThreshold(quick_score)
                                 THEN "early_exit" ELSE "detailed" ]
                 /\ history' = history
    /\ UNCHANGED << reply, health, request, db, uploads, hw, files, scorer_instance, instances, calls >>
QuickFilter(t) ==
    /\ Frame(t).pc = "quick_filter"
    /\ LET text == instances[Frame(t).scorer].quick_embeddings IN
         IF "quick_embeddings" \notin instances[Frame(t).scorer].attrs
         THEN /\ thread' = Leave(t, Raised("AttributeError"))
              /\ history' = Log(t, Raised("AttributeError"))
         ELSE LET quick_score == CalculateSimilarity(Frame(t).image_embedding, text)
              IN /\ thread' = [ thread EXCEPT
                       ![t].quick_score = quick_score,
                       ![t].computed = Append(@, "quick"),
                       ![t].pc = IF BelowThreshold(quick_score)
                                 THEN "early_exit" ELSE "detailed" ]
                 /\ history' = history
    /\ UNCHANGED << reply, health, request, db, uploads, hw, files, scorer_instance, instances, calls >>

\* The early exit: scale, clamp, return the quick result.
EarlyExitFallsThrough(t) ==
    /\ Frame(t).pc = "early_exit"
    /\ thread' = [ thread EXCEPT ![t].pc = "detailed" ]
    /\ UNCHANGED << reply, health, request, db, uploads, hw, files, scorer_instance, instances, calls, history >>
EarlyExit(t) ==
    /\ Frame(t).pc = "early_exit"
    /\ LET quick_score  == Frame(t).quick_score
           scaled_score == QuickScaled(quick_score)
           result == Returned(scaled_score,
                              ("universal_raw" :> quick_score)
                                @@ ("universal_scaled" :> scaled_score)
                                @@ ("note" :> "Quick evaluation only"),
                              METHOD_QUICK)
       IN /\ thread' = Leave(t, result)
          /\ history' = Log(t, result)
    /\ UNCHANGED << reply, health, request, db, uploads, hw, files, scorer_instance, instances, calls >>

\* Stage 2: the five further similarities, each stored in the breakdown.
DetailedRecomputing(t) ==
    /\ Frame(t).pc = "detailed"
    /\ LET scorer == instances[Frame(t).scorer]
           image_embedding == Frame(t).image_embedding
       IN IF ~ ({ "detailed_embeddings", "category_embeddings",
                    "negative_embeddings" } \subseteq scorer.attrs)
          THEN /\ thread' = Leave(t, Raised("AttributeError"))
               /\ history' = Log(t, Raised("AttributeError"))
          ELSE LET category_key == CategoryKey(Frame(t).category) IN
               /\ thread' = [ thread EXCEPT
                    ![t].breakdown =
                         ("universal_raw" :> Frame(t).quick_score)
                      @@ ("technical_raw" :> CalculateSimilarity(image_embedding,
                              scorer.detailed_embeddings.technical))
                      @@ ("composition_raw" :> CalculateSimilarity(image_embedding,
                              scorer.detailed_embeddings.composition))
                      @@ ("lighting_raw" :> CalculateSimilarity(image_embedding,
                              scorer.detailed_embeddings.lighting))
                      @@ ("category_raw" :> CalculateSimilarity(image_embedding,
                              scorer.category_embeddings[category_key]))
                      @@ ("negative_raw" :> CalculateSimilarity(image_embedding,
                              scorer.negative_embeddings)),
                    ![t].computed = @ \o << "quick", "technical", "composition", "lighting",
                                            CategoryTag(category_key), "negative" >>,
                    ![t].pc = "calibrate" ]
               /\ history' = history
    /\ UNCHANGED << reply, health, request, db, uploads, hw, files, scorer_instance, instances, calls >>
DetailedRefreshingCache(t) ==
    /\ Frame(t).pc = "detailed"
    /\ LET scorer == instances[Frame(t).scorer]
           image_embedding == Frame(t).image_embedding
       IN IF ~ ({ "detailed_embeddings", "category_embeddings",
                    "negative_embeddings" } \subseteq scorer.attrs)
          THEN /\ thread' = Leave(t, Raised("AttributeError"))
               /\ history' = Log(t, Raised("AttributeError"))
               /\ instances' = instances
          ELSE LET category_key == CategoryKey(Frame(t).category) IN
               /\ thread' = [ thread EXCEPT
                    ![t].breakdown =
                         ("universal_raw" :> Frame(t).quick_score)
                      @@ ("technical_raw" :> CalculateSimilarity(image_embedding,
                              scorer.detailed_embeddings.technical))
                      @@ ("composition_raw" :> CalculateSimilarity(image_embedding,
                              scorer.detailed_embeddings.composition))
                      @@ ("lighting_raw" :> CalculateSimilarity(image_embedding,
                              scorer.detailed_embeddings.lighting))
                      @@ ("category_raw" :> CalculateSimilarity(image_embedding,
                              scorer.category_embeddings[category_key]))
                      @@ ("negative_raw" :> CalculateSimilarity(image_embedding,
                              scorer.negative_embeddings)),
                    ![t].computed = @ \o << "technical", "composition", "lighting",
                                            CategoryTag(category_key), "negative" >>,
                    ![t].pc = "calibrate" ]
               /\ history' = history
               /\ instances' = [ instances EXCEPT ![Frame(t).scorer].negative_embeddings =
                                    [ model |-> MODEL_NAME, batch |-> "quick" ] ]
    /\ UNCHANGED << reply, health, request, db, uploads, hw, files, scorer_instance, calls >>
Detailed(t) ==
    /\ Frame(t).pc = "detailed"
    /\ LET scorer == instances[Frame(t).scorer]
           image_embedding == Frame(t).image_embedding
       IN IF ~ ({ "detailed_embeddings", "category_embeddings",
                    "negative_embeddings" } \subseteq scorer.attrs)
          THEN /\ thread' = Leave(t, Raised("AttributeError"))
               /\ history' = Log(t, Raised("AttributeError"))
          ELSE LET category_key == CategoryKey(Frame(t).category) IN
               /\ thread' = [ thread EXCEPT
                    ![t].breakdown =
                         ("universal_raw" :> Frame(t).quick_score)
                      @@ ("technical_raw" :> CalculateSimilarity(image_embedding,
                              scorer.detailed_embeddings.technical))
                      @@ ("composition_raw" :> CalculateSimilarity(image_embedding,
                              scorer.detailed_embeddings.composition))
                      @@ ("lighting_raw" :> CalculateSimilarity(image_embedding,
                              scorer.detailed_embeddings.lighting))
                      @@ ("category_raw" :> CalculateSimilarity(image_embedding,
                              scorer.category_embeddings[category_key]))
                      @@ ("negative_raw" :> CalculateSimilarity(image_embedding,
                              scorer.negative_embeddings)),
                    ![t].computed = @ \o << "technical", "composition", "lighting",
                                            CategoryTag(category_key), "negative" >>,
                    ![t].pc = "calibrate" ]
               /\ history' = history
    /\ UNCHANGED << reply, health, request, db, uploads, hw, files, scorer_instance, instances, calls >>

\* The weighted raw score, the progressive mapping, the contrastive penalty,
\* the clamp, the rest of the breakdown and the returned (rounded) score.
Calibrate(t) ==
    /\ Frame(t).pc = "calibrate"
    /\ LET b == Frame(t).breakdown
           weighted_raw_score ==
               WeightedRawScore(Frame(t).quick_score, b.technical_raw,
                                b.composition_raw, b.lighting_raw, b.category_raw)
           negative_penalty == NegativePenalty(b.negative_raw)
           aesthetic_score ==
               ClampDetailed(ProgressiveMapping(weighted_raw_score), negative_penalty)
           breakdown == b @@ ("aesthetic_score" :> aesthetic_score)
                          @@ ("weighted_raw" :> weighted_raw_score)
                          @@ ("negative_penalty" :> negative_penalty)
                          @@ ("mapping_tier" :> MappingTier(weighted_raw_score))
           result == Returned(Round1(aesthetic_score), breakdown, METHOD_DETAILED)
       IN /\ thread' = Leave(t, result)
          /\ history' = Log(t, result)
    /\ UNCHANGED << reply, health, request, db, uploads, hw, files, scorer_instance, instances, calls >>

(***************************************************************************)
(* Concurrent callers of calculate_aesthetic_score in one process.         *)
(***************************************************************************)
Init ==
    /\ hw = [ cuda |-> FALSE, mps |-> FALSE ]
    /\ files = InitFiles
    /\ scorer_instance = None
    /\ instances = <<>>
    /\ thread = [ t \in Threads |-> IdleFrame ]
    /\ calls = 0
    /\ history = {}
    /\ request = IdleRequest
    /\ db = << >>
    /\ uploads = 0
    /\ health = IdleHealth
    /\ reply = NoReply

Next ==
    \E t \in Threads :
        \/ Call(t)
        \/ GetCheck(t)
        \/ InitLoad(t)
        \/ EncodeQuick(t)
        \/ EncodeDetailed(t)
        \/ EncodeCategory(t)
        \/ EncodeNegative(t)
        \/ GetAssign(t)
        \/ GetReturn(t)
        \/ EncodeImage(t)
        \/ QuickFilter(t)
        \/ EarlyExit(t)
        \/ Detailed(t)
        \/ Calibrate(t)

Spec == Init /\ [][Next]_vars

(***************************************************************************)
(* POST /upload: upload_photo_spot, run on the event loop.  The handler    *)
(* calls calculate_aesthetic_score in its own thread (caller 1).  Form     *)
(* fields the handler copies into the row untouched (name, description,    *)
(* coordinates, tags, equipment) are left out.                             *)
(***************************************************************************)
MaxUploads == 2

\* f"{uuid.uuid4()}{file_ext}" under UPLOAD_DIR and THUMBNAIL_DIR: a fresh
\* name for each request.
UploadPaths ==
    << "uploads/photos/u1.jpg", "uploads/photos/u2.jpg",
       "uploads/photos/u3.jpg", "uploads/photos/u4.jpg" >>
ThumbnailPaths ==
    << "uploads/thumbnails/thumb_u1.jpg", "uploads/thumbnails/thumb_u2.jpg",
       "uploads/thumbnails/thumb_u3.jpg", "uploads/thumbnails/thumb_u4.jpg" >>

CT_jpeg == <<"i","m","a","g","e","/","j","p","e","g">>
CT_text == <<"t","e","x","t","/","p","l","a","i","n">>
ImagePrefix == <<"i","m","a","g","e","/">>

\* str.startswith
StartsWith(str, prefix) ==
    /\ Len(str) >= Len(prefix)
    /\ SubSeq(str, 1, Len(prefix)) = prefix

\* A file whose header reads (Image.open, img.size) and whose pixel data
\* does not load.
TruncatedImage == MakeImage("truncated", 0, 0, 0, 0, 0, 0)

UploadContentTypes == { CT_jpeg, CT_text }
\* A file that opens with a zero width or height.
ZeroDimImage == MakeImage("zero_dim", 0, 0, 0, 0, 0, 0)

UploadPhotos ==
    { GoodImage, PoorImage, TruncatedImage, ZeroDimImage, CorruptImage }
UploadCategories == { C_Sunset, K_landscape, C_abstract }

\* with Image.open(file_path) as img: width, height = img.size; a zero
\* width or height raises ValueError
Verifies(image) == image.kind \in { "valid", "truncated" }

\* create_thumbnail: True when the image loads and the thumbnail is saved,
\* False on any exception.
CreateThumbnail(image) == image.kind = "valid"

\* [p |-> content] written over the file system
WriteFile(fs, path, content) ==
    [ p \in DOMAIN fs \cup { path } |-> IF p = path THEN content ELSE fs[p] ]

\* os.remove of the paths that exist
RemoveFiles(fs, paths) ==
    [ p \in DOMAIN fs \ paths |-> fs[p] ]

K_street   == <<"s","t","r","e","e","t">>
K_urban    == <<"u","r","b","a","n">>
K_wildlife == <<"w","i","l","d","l","i","f","e">>
K_portrait == <<"p","o","r","t","r","a","i","t">>
K_aerial   == <<"a","e","r","i","a","l">>

\* PhotoSpotBase.validate_category, run on the response model
ALLOWED_CATEGORIES ==
    { K_landscape, K_architecture, K_street, K_nature, K_urban, K_wildlife,
      K_portrait, K_night, K_aerial, K_other }
ValidateCategory(v) == Lower(v) \in ALLOWED_CATEGORIES

POPULARITY_DEFAULT == 50

\* The request arrives; anything but an image/* content type is refused.
UploadReceive ==
    /\ request.pc \in { "idle", "done" }
    /\ uploads < MaxUploads
    /\ uploads' = uploads + 1
    /\ \E content_type \in UploadContentTypes, photo \in UploadPhotos,
          category \in UploadCategories :
          request' =
            IF ~ StartsWith(content_type, ImagePrefix)
            THEN [ IdleRequest EXCEPT !.pc = "done",
                                      !.content_type = content_type,
                                      !.status = 400,
                                      !.detail = "File must be an image" ]
            ELSE [ IdleRequest EXCEPT !.pc = "save",
                                      !.content_type = content_type,
                                      !.photo = photo,
                                      !.category = category,
                                      !.file_path = UploadPaths[uploads + 1],
                                      !.thumbnail_path = ThumbnailPaths[uploads + 1] ]
    /\ UNCHANGED << reply, health, hw, files, scorer_instance, instances, thread, calls,
                    history, db >>

\* Save the file, verify it, create the thumbnail; on an exception remove
\* the file and answer 400.
UploadSave ==
    /\ request.pc = "save"
    /\ LET saved == WriteFile(files, request.file_path, request.photo) IN
         IF ~ Verifies(request.photo)
         THEN /\ files' = RemoveFiles(saved, { request.file_path })
              /\ request' = [ request EXCEPT !.pc = "done", !.status = 400,
                                             !.detail = "Invalid image file" ]
         ELSE /\ files' = IF CreateThumbnail(request.photo)
                          THEN WriteFile(saved, request.thumbnail_path,
                                         request.photo)
                          ELSE saved
              /\ request' = [ request EXCEPT
                                !.pc = "score",
                                !.thumbnail_created = CreateThumbnail(request.photo) ]
    /\ UNCHANGED << reply, health, hw, scorer_instance, instances, thread, calls, history,
                    db, uploads >>

\* aesthetic_score, score_breakdown = calculate_aesthetic_score(file_path,
\* category): the call is entered.
UploadCallScorer ==
    /\ request.pc = "score"
    /\ thread' = [ thread EXCEPT ![1] =
                     [ IdleFrame EXCEPT !.pc = "get_check",
                                        !.image_path = request.file_path,
                                        !.category = request.category ] ]
    /\ request' = [ request EXCEPT !.pc = "scoring" ]
    /\ UNCHANGED << reply, health, hw, files, scorer_instance, instances, calls, history,
                    db, uploads >>

\* The call has returned; except Exception: aesthetic_score = 70.0,
\* score_breakdown = {"error": str(e)}
UploadScored ==
    /\ request.pc = "scoring"
    /\ thread[1].pc = "returned"
    /\ LET ret == thread[1].ret IN
         request' =
           IF ret.kind = "ok"
           THEN [ request EXCEPT !.pc = "commit",
                                 !.aesthetic_score = ret.aesthetic_score,
                                 !.score_breakdown = ret.breakdown ]
           ELSE [ request EXCEPT !.pc = "commit",
                                 !.aesthetic_score = DEFAULT_SCORE * ScoreUnit,
                                 !.score_breakdown = ("error" :> ret.error) ]
    /\ UNCHANGED << reply, health, hw, files, scorer_instance, instances, thread, calls,
                    history, db, uploads >>

\* db_spot = PhotoSpot(...)
NewSpot ==
    [ id |-> Len(db) + 1,
      category |-> Lower(request.category),
      image_url |-> request.file_path,
      thumbnail_url |-> IF request.thumbnail_created
                        THEN request.thumbnail_path ELSE "",
      aesthetic_score |-> request.aesthetic_score,
      popularity_score |-> POPULARITY_DEFAULT * ScoreUnit,
      is_active |-> TRUE ]

\* db.add, db.commit, db.refresh, return db_spot through the response model;
\* a database exception removes both files and answers 500.
UploadCommit ==
    /\ request.pc = "commit"
    /\ \E commit_ok \in BOOLEAN :
          IF commit_ok
          THEN /\ db' = Append(db, NewSpot)
               /\ files' = files
               /\ request' =
                    IF ValidateCategory(NewSpot.category)
                    THEN [ request EXCEPT !.pc = "done", !.status = 201,
                                          !.body = NewSpot ]
                    ELSE [ request EXCEPT !.pc = "done", !.status = 500,
                                          !.detail = "ResponseValidationError" ]
          ELSE /\ db' = db
               /\ files' = RemoveFiles(files, { request.file_path,
                                                request.thumbnail_path })
               /\ request' = [ request EXCEPT !.pc = "done", !.status = 500,
                                              !.detail = "Database error" ]
    /\ UNCHANGED << reply, health, hw, scorer_instance, instances, thread, calls, history,
                    uploads >>

NextUpload ==
    \/ UploadReceive
    \/ UploadSave
    \/ UploadCallScorer
    \/ UploadScored
    \/ UploadCommit
    \/ GetCheck(1)
    \/ InitLoad(1)
    \/ EncodeQuick(1)
    \/ EncodeDetailed(1)
    \/ EncodeCategory(1)
    \/ EncodeNegative(1)
    \/ GetAssign(1)
    \/ GetReturn(1)
    \/ EncodeImage(1)
    \/ QuickFilter(1)
    \/ EarlyExit(1)
    \/ Detailed(1)
    \/ Calibrate(1)

SpecUpload == Init /\ [][NextUpload]_vars

(***************************************************************************)
(* The event loop of the single server process (uvicorn.run without        *)
(* workers).  upload_photo_spot and health_check are coroutines: one runs  *)
(* at a time, and a coroutine gives the loop up only at an await.  The     *)
(* only await of upload_photo_spot is photo.read(); from there to its      *)
(* return, scoring included, it holds the loop.                            *)
(***************************************************************************)
\* upload_photo_spot is between its await and its return.
LoopHeldByUpload == request.pc \in { "score", "scoring", "commit" }

\* A client sends GET /health; the request waits for the event loop.
HealthArrive ==
    /\ health.pc \in { "idle", "done" }
    /\ health' = [ pc |-> "pending", status |-> 0 ]
    /\ UNCHANGED << reply, hw, files, scorer_instance, instances, thread, calls,
                    history, request, db, uploads >>

\* The event loop runs health_check and sends the response.
HealthServe ==
    /\ health.pc = "pending"
    /\ ~ LoopHeldByUpload
    /\ health' = [ pc |-> "done", status |-> 200 ]
    /\ UNCHANGED << reply, hw, files, scorer_instance, instances, thread, calls,
                    history, request, db, uploads >>

NextServer ==
    \/ NextUpload
    \/ HealthArrive
    \/ HealthServe

SpecServer == Init /\ [][NextServer]_vars


(***************************************************************************)
(* One evaluation on a constructed scorer, for every image of a grid of    *)
(* similarity values and every category of a list of strings.              *)
(***************************************************************************)
QuickGrid    == { -100, 0, 5, 10, 15, 19, 20, 21, 23, 28, 35, 100 }
DetailedGrid ==
    { << v, v, v >> : v \in { -100, 16, 20, 23, 26, 28, 30, 100 } }
        \cup { << 20, 28, 24 >>, << 100, -100, 0 >>, << 30, 16, 23 >> }
CategoryGrid == { -100, 11, 15, 16, 18, 20, 21, 23, 25, 26, 28, 94 }
NegativeGrid == { -100, 0, 22, 23, 25, 60, 100 }

C_NIGHT == <<"N","I","G","H","T">>
C_empty == <<>>

EvalCategories == { K_landscape, C_Sunset, C_NIGHT, C_abstract, K_other, C_empty }

GridImages ==
    { MakeImage("valid", q, d[1], d[2], d[3], k, n) :
        q \in QuickGrid, d \in DetailedGrid, k \in CategoryGrid, n \in NegativeGrid }

\* A scorer whose __init__ has returned.
BuiltScorer(device) ==
    [ NewScorer(device) EXCEPT
        !.attrs = ScorerAttributes,
        !.text_batches = 2 + Cardinality(DOMAIN DETAILED_PROMPTS)
                           + Cardinality(DOMAIN CATEGORY_PROMPTS),
        !.quick_embeddings = EncodeTextBatch(MODEL_NAME, QUICK_PROMPTS),
        !.detailed_embeddings =
            [ dimension \in DOMAIN DETAILED_PROMPTS |->
                EncodeTextBatch(MODEL_NAME, DETAILED_PROMPTS[dimension]) ],
        !.category_embeddings =
            [ category \in DOMAIN CATEGORY_PROMPTS |->
                EncodeTextBatch(MODEL_NAME, CATEGORY_PROMPTS[category]) ],
        !.negative_embeddings = EncodeTextBatch(MODEL_NAME, NEGATIVE_PROMPTS) ]

\* The shared scorer exists; caller 1 is in calculate_aesthetic_score, about
\* to run evaluate_image on "photo.jpg".
InitEval ==
    /\ hw = [ cuda |-> FALSE, mps |-> FALSE ]
    /\ \E image \in GridImages : files = ("photo.jpg" :> image)
    /\ scorer_instance = 1
    /\ instances = << BuiltScorer(SelectDevice(hw)) >>
    /\ \E category \in EvalCategories :
          thread = [ t \in Threads |->
                       IF t = 1
                       THEN [ IdleFrame EXCEPT !.pc = "encode_image",
                                               !.image_path = "photo.jpg",
                                               !.category = category,
                                               !.scorer = 1 ]
                       ELSE IdleFrame ]
    /\ calls = 1
    /\ history = {}
    /\ request = IdleRequest
    /\ db = << >>
    /\ uploads = 0
    /\ health = IdleHealth
    /\ reply = NoReply

NextEval ==
    \/ EncodeImage(1)
    \/ QuickFilter(1)
    \/ EarlyExit(1)
    \/ Detailed(1)
    \/ Calibrate(1)

SpecEval == InitEval /\ [][NextEval]_vars

\* evaluate_image is straight-line synchronous code: the thread that runs it
\* keeps taking steps until it returns.
SpecEvalFair == SpecEval /\ WF_vars(NextEval)


(***************************************************************************)
(* Properties of one evaluation (checked under SpecEval).                  *)
(***************************************************************************)
\* The logged evaluations that returned a result, by path taken.
Evaluated == { h \in history : h.outcome.kind = "ok" }
QuickExits == { h \in Evaluated : h.outcome.evaluation_method = METHOD_QUICK }
DetailedExits == { h \in Evaluated : h.outcome.evaluation_method = METHOD_DETAILED }

\* The image an evaluation was given (no image when the path names no file).
ImageOf(h) ==
    IF h.image_path \in DOMAIN files THEN files[h.image_path] ELSE NoImage

\* C1: every evaluation of an image that encodes returns a score in [20, 98];
\* a quick-only exit returns a score in [20, 40] and a detailed exit a score in
\* [30, 98], whatever the similarities are.
C1_ScoreRange ==
    \A h \in history :
        ImageOf(h).kind = "valid" =>
            /\ h.outcome.kind = "ok"
            /\ h.outcome.aesthetic_score >= 20 * ScoreUnit
            /\ h.outcome.aesthetic_score <= 98 * ScoreUnit
            /\ h.outcome.evaluation_method \in { METHOD_QUICK, METHOD_DETAILED }
            /\ h.outcome.evaluation_method = METHOD_QUICK =>
                   /\ h.outcome.aesthetic_score >= 20 * ScoreUnit
                   /\ h.outcome.aesthetic_score <= 40 * ScoreUnit
            /\ h.outcome.evaluation_method = METHOD_DETAILED =>
                   /\ h.outcome.aesthetic_score >= 30 * ScoreUnit
                   /\ h.outcome.aesthetic_score <= 98 * ScoreUnit

\* A detailed exit whose mapped score lay above 98 and was clamped to it, and
\* in another run a quick exit whose scaled score lay below 20: here the first.
C1_Witness ==
    \E h \in DetailedExits :
        /\ h.outcome.breakdown.weighted_raw > W(excellent_sim)
        /\ h.outcome.aesthetic_score = 98 * ScoreUnit

\* C6: the detailed path scores the category against exactly one category
\* batch: the one named by the lower-cased category when that is one of the
\* seven names, the "other" batch for any other string; no category string
\* makes the evaluation fail.
C6_CategoryGroup ==
    \A h \in history :
        /\ h.outcome.kind = "ok"
        /\ h \in DetailedExits =>
            LET lowered  == Lower(h.category)
                expected ==
                    IF lowered \in { K_landscape, K_cityscape, K_architecture,
                                     K_nature, K_sunset, K_night, K_other }
                    THEN lowered ELSE K_other
                byhand ==
                    CASE h.category = C_Sunset -> K_sunset
                      [] h.category = C_NIGHT -> K_night
                      [] h.category = K_landscape -> K_landscape
                      [] OTHER -> K_other
            IN  /\ expected = byhand
                /\ h.outcome.breakdown.category_raw
                       = ImageOf(h).sim[CategoryTag(expected)]
                /\ \A key \in CategoryKeys \ { expected } :
                       h.outcome.breakdown.category_raw
                           # ImageOf(h).sim[CategoryTag(key)]

\* An unrecognized category ("abstract") scored against the "other" batch,
\* and a mixed-case one ("Sunset") against its lower-cased name's batch.
C6_Witness ==
    \E h \in DetailedExits :
        /\ h.category = C_abstract
        /\ h.outcome.breakdown.category_raw = ImageOf(h).sim.category_other

\* C7: the early exit is taken exactly when quick_score < 0.20; a quick_score
\* of exactly 0.20 takes the detailed path.
C7_ThresholdExclusive ==
    \A h \in Evaluated :
        /\ h \in QuickExits <=> ImageOf(h).sim.quick < 20
        /\ ImageOf(h).sim.quick = 20 => h \in DetailedExits
        /\ h.outcome.breakdown.universal_raw = ImageOf(h).sim.quick

\* An evaluation with quick_score = 0.20 that took the detailed path.
C7_Witness ==
    \E h \in DetailedExits : ImageOf(h).sim.quick = 20

\* C9: on the early exit the score is ((quick_score - 0.10) / 0.10) * 20 + 20
\* clamped to [20, 40]: 0.15 gives 30, anything at or below 0.10 gives 20.
C9_QuickScale ==
    \A h \in QuickExits :
        LET q == ImageOf(h).sim.quick
            \* ((q/100 - 0.10) / 0.10) * 20 + 20  =  2 * q / 10 * 10  =  2q - 20 + 20
            linear == 2 * (q - 10) + 20
            clamped == IF linear < 20 THEN 20 ELSE IF linear > 40 THEN 40 ELSE linear
        IN  /\ h.outcome.aesthetic_score = clamped * ScoreUnit
            /\ h.outcome.breakdown.universal_scaled = h.outcome.aesthetic_score
            /\ q = 15 => h.outcome.aesthetic_score = 30 * ScoreUnit
            /\ q <= 10 => h.outcome.aesthetic_score = 20 * ScoreUnit

\* The scenario: quick_score = 0.15 returned 30 by the quick method.
C9_Witness ==
    \E h \in QuickExits :
        /\ ImageOf(h).sim.quick = 15
        /\ h.outcome.aesthetic_score = 30 * ScoreUnit

\* C10: on the detailed path the score is the calibrated value of the weighted
\* raw score minus the penalty, clamped to [30, 98] after the subtraction, and
\* rounded to one decimal; weighted = 0.28 with negative_score = 0.25 gives
\* base 87.5, penalty 0.6 and 86.9.
C10_DetailedScore ==
    \A h \in DetailedExits :
        LET w == h.outcome.breakdown.weighted_raw
            n == h.outcome.breakdown.negative_raw
            calibrated ==
                IF w < 2300
                THEN 40 * ScoreUnit + (25 * ScoreUnit * (w - 1600)) \div (2300 - 1600)
                ELSE IF w < 2600
                THEN 65 * ScoreUnit + (15 * ScoreUnit * (w - 2300)) \div (2600 - 2300)
                ELSE 80 * ScoreUnit + (15 * ScoreUnit * (w - 2600)) \div (3000 - 2600)
            penalty == IF n > 22 THEN (20 * ScoreUnit * (n - 22)) \div 100 ELSE 0
            net     == calibrated - penalty
            clamped == IF net < 30 * ScoreUnit THEN 30 * ScoreUnit
                       ELSE IF net > 98 * ScoreUnit THEN 98 * ScoreUnit ELSE net
            tenth   == ScoreUnit \div 10
            score   == h.outcome.aesthetic_score
        IN  /\ h.outcome.breakdown.aesthetic_score = clamped
            /\ h.outcome.breakdown.negative_penalty = penalty
            /\ score % tenth = 0
            /\ 2 * (score - clamped) <= tenth
            /\ 2 * (clamped - score) <= tenth
            /\ (w = 2800 /\ n = 25) =>
                   /\ 2 * calibrated = 175 * ScoreUnit
                   /\ 10 * penalty = 6 * ScoreUnit
                   /\ 10 * score = 869 * ScoreUnit

\* The scenario: weighted = 0.28 and negative_score = 0.25 returned 86.9.
C10_Witness ==
    \E h \in DetailedExits :
        /\ h.outcome.breakdown.weighted_raw = 2800
        /\ h.outcome.breakdown.negative_raw = 25
        /\ 10 * h.outcome.aesthetic_score = 869 * ScoreUnit


(***************************************************************************)
(* Properties of the shared scorer under concurrent callers (Spec).        *)
(***************************************************************************)
\* The callers that hold a scorer returned by get_aesthetic_scorer.
Holders == { t \in Threads : thread[t].scorer # None }

\* Every attribute __init__ sets is set, and every prompt batch of the bank
\* has its embedding under the loaded checkpoint.
FullyInitialized(scorer) ==
    /\ scorer.attrs = ScorerAttributes
    /\ scorer.model = MODEL_NAME
    /\ scorer.preprocess = MODEL_NAME
    /\ scorer.quick_embeddings = [ model |-> MODEL_NAME, batch |-> "quick" ]
    /\ \A d \in { "technical", "composition", "lighting" } :
           scorer.detailed_embeddings[d] = [ model |-> MODEL_NAME, batch |-> d ]
    /\ \A key \in { K_landscape, K_cityscape, K_architecture, K_nature,
                    K_sunset, K_night, K_other } :
           scorer.category_embeddings[key]
               = [ model |-> MODEL_NAME, batch |-> CategoryTag(key) ]
    /\ scorer.negative_embeddings = [ model |-> MODEL_NAME, batch |-> "negative" ]

\* C2: however the first calls interleave, CLIPAestheticScorer is constructed
\* (the model loaded) at most once.
C2_LoadedOnce == Len(instances) <= 1

\* C3: a scorer returned by get_aesthetic_scorer, and the scorer the global
\* names, is fully initialized; no evaluation of a valid image fails for a
\* missing embedding.
C3_NeverHalfInitialized ==
    /\ \A t \in Holders : FullyInitialized(instances[thread[t].scorer])
    /\ scorer_instance # None => FullyInitialized(instances[scorer_instance])
    /\ \A h \in history : ImageOf(h).kind = "valid" => h.outcome.kind = "ok"

\* A caller evaluates with the scorer it was given while another caller's
\* scorer is still being constructed.
C3_Witness ==
    \E t \in Holders :
        /\ thread[t].pc \in { "quick_filter", "detailed" }
        /\ \E i \in DOMAIN instances : instances[i].attrs # ScorerAttributes

C8_Deterministic ==
    /\ \A h1, h2 \in history :
           (h1.image_path = h2.image_path /\ h1.category = h2.category)
               => h1.outcome = h2.outcome
    /\ \A h \in history :
           /\ (h.image_path = "good.jpg" /\ h.category = C_Sunset) =>
                  /\ h.outcome.evaluation_method = METHOD_DETAILED
                  /\ 10 * h.outcome.aesthetic_score = 869 * ScoreUnit
           /\ (h.image_path = "poor.jpg" /\ h.category = C_abstract) =>
                  /\ h.outcome.evaluation_method = METHOD_QUICK
                  /\ h.outcome.aesthetic_score = 30 * ScoreUnit
           /\ h.image_path = "corrupt.jpg" => h.outcome.kind = "raised"

\* Both callers completed a detailed evaluation of the same image and
\* category, and one outcome is logged.
C8_Witness ==
    /\ \A t \in { 1, 2 } :
           /\ thread[t].pc = "returned"
           /\ thread[t].result.evaluation_method = METHOD_DETAILED
    /\ Cardinality(history) = 1


(***************************************************************************)
(* Properties of the upload flow (SpecUpload).                             *)
(***************************************************************************)
\* The handler is past its scoring step.
Scored ==
    \/ request.pc = "commit"
    \/ /\ request.pc = "done"
       /\ request.detail \notin { "File must be an image", "Invalid image file" }

\* The scorer raised in this request's scoring step.
ScoringFailed == Scored /\ thread[1].result.kind = "raised"

C11_ContinuousAtBreakpoints ==
    \A h \in DetailedExits :
        LET b == h.outcome.breakdown
            w == b.weighted_raw
        IN  /\ w = W(avg_sim) =>
                  /\ PoorBranch(w) = 65 * ScoreUnit
                  /\ GoodBranch(w) = 65 * ScoreUnit
                  /\ ProgressiveMapping(w) = 65 * ScoreUnit
                  /\ b.negative_penalty = 0 => b.aesthetic_score = 65 * ScoreUnit
            /\ w = W(good_sim) =>
                  /\ GoodBranch(w) = 80 * ScoreUnit
                  /\ ExcellentBranch(w) = 80 * ScoreUnit
                  /\ ProgressiveMapping(w) = 80 * ScoreUnit
                  /\ b.negative_penalty = 0 => b.aesthetic_score = 80 * ScoreUnit

\* An evaluation whose weighted raw score is exactly 0.26, without penalty.
C11_Witness ==
    \E h \in DetailedExits :
        /\ h.outcome.breakdown.weighted_raw = W(good_sim)
        /\ h.outcome.breakdown.negative_penalty = 0
        /\ h.outcome.aesthetic_score = 80 * ScoreUnit

\* C12: the penalty is 0 for a negative score of at most 0.22 and
\* (negative_score - 0.22) * 20 > 0 above it; the penalty step never raises the
\* score: the final score is at most the clamped mapped score.
C12_PenaltyOneSided ==
    \A h \in DetailedExits :
        LET b == h.outcome.breakdown
            mapped == ProgressiveMapping(b.weighted_raw)
        IN  /\ b.negative_raw <= 22 => b.negative_penalty = 0
            /\ b.negative_raw > 22 =>
                  /\ b.negative_penalty * SimUnit
                         = (b.negative_raw - 22) * 20 * ScoreUnit
                  /\ b.negative_penalty > 0
            /\ mapped - b.negative_penalty <= mapped
            /\ b.aesthetic_score <= Max(30 * ScoreUnit, Min(98 * ScoreUnit, mapped))

\* A penalty lowered the score of an evaluation.
C12_Witness ==
    \E h \in DetailedExits :
        LET b == h.outcome.breakdown IN
            /\ b.negative_raw > 22
            /\ b.negative_penalty > 0
            /\ b.aesthetic_score < ProgressiveMapping(b.weighted_raw)
            /\ b.aesthetic_score > 30 * ScoreUnit

\* C13: the five weights are 0.20, 0.25, 0.25, 0.15 and 0.15, sum to exactly
\* 1.00, and are the weights every evaluation combines its similarities with.
C13_WeightsSumToOne ==
    /\ DOMAIN WEIGHTS = { "universal", "technical", "composition", "lighting",
                          "category" }
    /\ WEIGHTS.universal + WEIGHTS.technical + WEIGHTS.composition
           + WEIGHTS.lighting + WEIGHTS.category = 100
    /\ \A h \in DetailedExits :
           LET b == h.outcome.breakdown IN
               /\ b.weighted_raw = 20 * b.universal_raw + 25 * b.technical_raw
                                     + 25 * b.composition_raw + 15 * b.lighting_raw
                                     + 15 * b.category_raw
               /\ (b.universal_raw = b.technical_raw
                     /\ b.technical_raw = b.composition_raw
                     /\ b.composition_raw = b.lighting_raw
                     /\ b.lighting_raw = b.category_raw)
                      => b.weighted_raw = W(b.universal_raw)

\* An evaluation combined five different similarities.
C13_Witness ==
    \E h \in DetailedExits :
        LET b == h.outcome.breakdown IN
            /\ b.technical_raw # b.composition_raw
            /\ b.composition_raw # b.lighting_raw
            /\ b.category_raw # b.universal_raw
            /\ b.weighted_raw > 0


(***************************************************************************)
(* Properties of the shared instance and of failures (Spec).               *)
(***************************************************************************)
\* C14: there is one shared scorer: every instance get_aesthetic_scorer has
\* returned to a caller is the instance the global names, so the global is
\* never replaced once an instance was returned.
C14_SingleInstance ==
    \A t \in Holders : thread[t].scorer = scorer_instance

\* A call fails to construct the scorer.
ConstructionFails(t) ==
    /\ thread[t].pc = "init_load"
    /\ thread'[t].pc = "returned"

\* C15: a failed construction is not cached: it raises, stores nothing in the
\* global and leaves no object behind; a call that enters get_aesthetic_scorer
\* constructs exactly when the global is unset, so calls retry until a
\* construction has succeeded and been stored, and no later call constructs.
C15_FailureNotCached ==
    [][ \A t \in Threads :
          /\ ConstructionFails(t) =>
                /\ scorer_instance' = scorer_instance
                /\ instances' = instances
                /\ thread'[t].result.kind = "raised"
          /\ (thread[t].pc = "get_check" /\ thread'[t].pc # "get_check") =>
                /\ scorer_instance = None => thread'[t].pc = "init_load"
                /\ scorer_instance # None => thread'[t].pc = "get_return"
                /\ scorer_instance' = scorer_instance ]_vars

\* One call failed to construct the scorer, the global stayed unset, and the
\* other call is retrying the construction.
C15_Witness ==
    \E t, u \in Threads :
        /\ thread[t].pc = "returned"
        /\ thread[t].result = Raised("RuntimeError: model unavailable")
        /\ thread[u].pc = "encode_quick"
        /\ scorer_instance = None
        /\ Len(instances) = 1

\* An evaluation fails to encode its image.
DecodeFails(t) ==
    /\ thread[t].pc = "encode_image"
    /\ thread'[t].pc = "returned"

\* C16: a decode failure changes nothing shared: the global, every scorer
\* object (model and cached embeddings) and the files stay as they were; an
\* evaluation of the valid image returns its result whether or not a decode
\* failure came before it.
C16_DecodeFailureLocal ==
    [][ /\ \A t \in Threads :
             DecodeFails(t) =>
                 /\ scorer_instance' = scorer_instance
                 /\ instances' = instances
                 /\ files' = files
                 /\ \A u \in Threads \ { t } : thread'[u] = thread[u]
        /\ \A h \in history' :
             h.image_path = "good.jpg" =>
                 /\ h.outcome.kind = "ok"
                 /\ 10 * h.outcome.aesthetic_score = 869 * ScoreUnit ]_vars

\* The corrupt image failed to decode, and afterwards the valid image was
\* evaluated on the same scorer with its usual result.
C16_Witness ==
    /\ \E h \in history : h.image_path = "corrupt.jpg" /\ h.outcome.kind = "raised"
    /\ \E h \in history :
           /\ h.image_path = "good.jpg"
           /\ 10 * h.outcome.aesthetic_score = 869 * ScoreUnit
    /\ Len(instances) = 1
    /\ \E t \in Threads :
           /\ thread[t].pc = "returned"
           /\ thread[t].result.kind = "raised"
           /\ thread[t].result.error = "UnidentifiedImageError"


(***************************************************************************)
(* Properties of the server's scheduling (SpecServer).                     *)
(***************************************************************************)
\* C17: while an upload is in its scoring call, a waiting unrelated request
\* can be served: the health check is not held back until the call returns.
C17_ScoringOffTheLoop ==
    (request.pc = "scoring" /\ health.pc = "pending") => ENABLED HealthServe


(***************************************************************************)
(* Properties of calculate_aesthetic_score and of the evaluation's path.   *)
(***************************************************************************)
\* C18: calculate_aesthetic_score never raises: every finished call returned a
\* (score, breakdown) pair, which is the scorer's score and breakdown when the
\* evaluation succeeded and exactly (70.0, {"error": message}) when the
\* construction or the evaluation raised.
C18_NeverRaises ==
    \A t \in Threads :
        thread[t].pc = "returned" =>
            /\ thread[t].result.kind \in { "ok", "raised" }
            /\ thread[t].ret.kind = "ok"
            /\ thread[t].result.kind = "ok" =>
                   /\ thread[t].ret.aesthetic_score = thread[t].result.aesthetic_score
                   /\ thread[t].ret.breakdown = thread[t].result.breakdown
            /\ thread[t].result.kind = "raised" =>
                   /\ thread[t].ret.aesthetic_score = 70 * ScoreUnit
                   /\ DOMAIN thread[t].ret.breakdown = { "error" }
                   /\ thread[t].ret.breakdown.error = thread[t].result.error
                   /\ thread[t].result.error # ""

\* One call returned the default after a failed construction, another after a
\* failed evaluation.
C18_Witness ==
    \E t, u \in Threads :
        /\ thread[t].pc = "returned"
        /\ thread[t].result.error = "RuntimeError: model unavailable"
        /\ thread[u].pc = "returned"
        /\ thread[u].result.error = "UnidentifiedImageError"
        /\ thread[t].ret.aesthetic_score = 70 * ScoreUnit
        /\ thread[u].ret.aesthetic_score = 70 * ScoreUnit

\* C20: an evaluation that takes the early exit has computed one similarity,
\* the one against the quick batch, and none of technical, composition,
\* lighting, category and negative.
C20_EarlyExitOneSimilarity ==
    \A t \in Threads :
        /\ thread[t].pc = "early_exit" => thread[t].computed = << "quick" >>
        /\ (thread[t].pc = "returned"
              /\ thread[t].result.evaluation_method = METHOD_QUICK) =>
               /\ thread[t].computed = << "quick" >>
               /\ DOMAIN thread[t].result.breakdown
                      = { "universal_raw", "universal_scaled", "note" }

\* An evaluation returned through the early exit.
C20_Witness ==
    \E t \in Threads :
        /\ thread[t].pc = "returned"
        /\ thread[t].result.evaluation_method = METHOD_QUICK
        /\ Len(thread[t].computed) = 1


\* The steps evaluate_image may take from each position.
EvaluationPath(t) ==
    /\ thread[t].pc = "encode_image" =>
           thread'[t].pc \in { "encode_image", "quick_filter", "returned" }
    /\ (thread[t].pc = "encode_image" /\ thread'[t].pc = "returned") =>
           thread'[t].result.kind = "raised"
    /\ thread[t].pc = "quick_filter" =>
           /\ thread'[t].pc \in { "quick_filter", "early_exit", "detailed" }
           /\ thread[t].computed = << >>
    /\ thread[t].pc = "early_exit" =>
           /\ thread'[t].pc \in { "early_exit", "returned" }
           /\ thread[t].computed[1] = "quick"
    /\ thread[t].pc = "detailed" =>
           /\ thread'[t].pc \in { "detailed", "calibrate" }
           /\ thread[t].computed[1] = "quick"
    /\ thread[t].pc = "calibrate" =>
           thread'[t].pc \in { "calibrate", "returned" }
    /\ (thread[t].pc = "early_exit" /\ thread'[t].pc = "returned") =>
           /\ thread'[t].result.kind = "ok"
           /\ thread'[t].result.evaluation_method = METHOD_QUICK
    /\ (thread[t].pc = "calibrate" /\ thread'[t].pc = "returned") =>
           /\ thread'[t].result.kind = "ok"
           /\ thread'[t].result.evaluation_method = METHOD_DETAILED
    /\ thread[t].pc = "returned" => thread'[t].pc = "returned"

\* C19: an evaluation whose image encodes goes START -> QUICK_FILTER -> either
\* EARLY_EXIT or DETAILED -> DONE: the quick similarity is computed first, one
\* branch is taken and never the other, the evaluation ends, and the method
\* returned is the quick one exactly after EARLY_EXIT and the detailed one
\* exactly after DETAILED.
C19_EvaluationPath ==
    /\ [][EvaluationPath(1)]_vars
    /\ (thread[1].pc = "quick_filter")
          ~> (thread[1].pc = "returned" /\ thread[1].result.kind = "ok")
    /\ [](thread[1].pc = "returned" =>
            /\ thread[1].result.evaluation_method = METHOD_QUICK
                  <=> Len(thread[1].computed) = 1
            /\ thread[1].result.evaluation_method = METHOD_DETAILED
                  <=> Len(thread[1].computed) = 6)

\* An evaluation went through DETAILED and is done.
C19_Witness ==
    /\ thread[1].pc = "returned"
    /\ thread[1].result.evaluation_method = METHOD_DETAILED
    /\ Len(thread[1].computed) = 6


(***************************************************************************)
(* The upload handler on each hardware: torch.cuda.is_available() and      *)
(* torch.backends.mps.is_available() are fixed for the process.            *)
(***************************************************************************)
Hardware == [ cuda : BOOLEAN, mps : BOOLEAN ]

InitDevice ==
    /\ hw \in Hardware
    /\ files = InitFiles
    /\ scorer_instance = None
    /\ instances = <<>>
    /\ thread = [ t \in Threads |-> IdleFrame ]
    /\ calls = 0
    /\ history = {}
    /\ request = IdleRequest
    /\ db = << >>
    /\ uploads = 0
    /\ health = IdleHealth
    /\ reply = NoReply

SpecDevice == InitDevice /\ [][NextUpload]_vars

(***************************************************************************)
(* Two evaluations on the shared scorer, one image each.  The images are a *)
(* ladder of weighted raw scores 0.2 * quick + 0.8 * v: below min_sim,     *)
(* exactly avg_sim (quick = v = 23) and good_sim (quick = v = 26), between *)
(* them, and above excellent_sim.                                          *)
(***************************************************************************)
PairQuick     == { 19, 20, 23, 26 }
PairLadder    == { 0, 16, 22, 23, 24, 26, 27, 31, 100 }
PairNegatives == { 0, 25 }

PairImages ==
    { MakeImage("valid", q, v, v, v, v, n) :
        q \in PairQuick, v \in PairLadder, n \in PairNegatives }

PairFrame(image_path) ==
    [ IdleFrame EXCEPT !.pc = "encode_image", !.image_path = image_path,
                       !.category = C_abstract, !.scorer = 1 ]

InitPair ==
    /\ hw = [ cuda |-> FALSE, mps |-> FALSE ]
    /\ \E image1, image2 \in PairImages :
          files = ("a.jpg" :> image1) @@ ("b.jpg" :> image2)
    /\ scorer_instance = 1
    /\ instances = << BuiltScorer(SelectDevice(hw)) >>
    /\ thread = [ t \in Threads |->
                    IF t = 1 THEN PairFrame("a.jpg")
                    ELSE IF t = 2 THEN PairFrame("b.jpg")
                    ELSE IdleFrame ]
    /\ calls = 2
    /\ history = {}
    /\ request = IdleRequest
    /\ db = << >>
    /\ uploads = 0
    /\ health = IdleHealth
    /\ reply = NoReply

NextPair ==
    \E t \in { 1, 2 } :
        \/ EncodeImage(t)
        \/ QuickFilter(t)
        \/ EarlyExit(t)
        \/ Detailed(t)
        \/ Calibrate(t)

SpecPair == InitPair /\ [][NextPair]_vars

(***************************************************************************)
(* The /api/spots endpoints over the photo_spots table.  Each handler is a *)
(* plain def run in one database transaction.  The ids come from the       *)
(* table's serial column and are never given twice: db keeps one slot per  *)
(* id given so far, and the slot of a permanently deleted row holds        *)
(* DeletedRow.                                                             *)
(***************************************************************************)
MaxSpots == 2

\* Path parameters: the ids that can exist, and one that never does.
SpotIds == 1..(MaxSpots + 1)

\* latitude and longitude in hundredths of a degree
SpotLocations == { << 0, 0 >>, << 5, -5 >>, << 100, 100 >> }

\* The columns of a PhotoSpot row that the endpoints filter on.
SpotRow(id, location) ==
    [ id |-> id, latitude |-> location[1], longitude |-> location[2],
      is_active |-> TRUE ]

DeletedRow == [ id |-> None, latitude |-> 0, longitude |-> 0, is_active |-> FALSE ]

\* db.query(PhotoSpot).filter(PhotoSpot.id == spot_id).first() finds a row
Found(table, spot_id) ==
    /\ spot_id \in DOMAIN table
    /\ table[spot_id].id = spot_id

\* POST /: db_spot = PhotoSpot(**spot.model_dump()); add, commit, refresh
CreatePhotoSpot ==
    /\ Len(db) < MaxSpots
    /\ \E location \in SpotLocations :
          /\ db' = Append(db, SpotRow(Len(db) + 1, location))
          /\ reply' = [ NoReply EXCEPT !.op = "create", !.spot_id = Len(db) + 1,
                                       !.status = 201, !.spots = { Len(db) + 1 } ]
    /\ UNCHANGED << hw, files, scorer_instance, instances, thread, calls,
                    history, request, uploads, health >>

\* GET /: filter(PhotoSpot.is_active == is_active), is_active defaulting to True
ListPhotoSpots ==
    /\ \E is_active \in BOOLEAN :
          reply' = [ NoReply EXCEPT
                       !.op = "list", !.is_active = is_active, !.status = 200,
                       !.spots = { i \in DOMAIN db :
                                     Found(db, i) /\ db[i].is_active = is_active } ]
    /\ UNCHANGED << hw, files, scorer_instance, instances, thread, calls,
                    history, request, db, uploads, health >>

\* GET /{spot_id}: 404 when no row has the id
GetPhotoSpot ==
    /\ \E spot_id \in SpotIds :
          reply' = IF Found(db, spot_id)
                   THEN [ NoReply EXCEPT !.op = "get", !.spot_id = spot_id,
                                         !.status = 200, !.spots = { spot_id } ]
                   ELSE [ NoReply EXCEPT !.op = "get", !.spot_id = spot_id,
                                         !.status = 404 ]
    /\ UNCHANGED << hw, files, scorer_instance, instances, thread, calls,
                    history, request, db, uploads, health >>

\* spot_update.model_dump(exclude_unset=True): the fields the body sets
UpdateInputs ==
    { ("is_active" :> FALSE), ("is_active" :> TRUE),
      ("latitude" :> 100) @@ ("longitude" :> 100), << >> }

\* for field, value in update_data.items(): setattr(db_spot, field, value)
SetAttrs(row, update_data) ==
    [ field \in DOMAIN row |->
        IF field \in DOMAIN update_data THEN update_data[field] ELSE row[field] ]

\* PUT /{spot_id}
UpdatePhotoSpot ==
    /\ \E spot_id \in SpotIds, update_data \in UpdateInputs :
          IF Found(db, spot_id)
          THEN /\ db' = [ db EXCEPT ![spot_id] = SetAttrs(db[spot_id], update_data) ]
               /\ reply' = [ NoReply EXCEPT !.op = "update", !.spot_id = spot_id,
                                            !.status = 200, !.spots = { spot_id } ]
          ELSE /\ db' = db
               /\ reply' = [ NoReply EXCEPT !.op = "update", !.spot_id = spot_id,
                                            !.status = 404 ]
    /\ UNCHANGED << hw, files, scorer_instance, instances, thread, calls,
                    history, request, uploads, health >>

\* DELETE /{spot_id}?hard_delete=...
DeletePhotoSpotAlwaysHard ==
    /\ \E spot_id \in SpotIds, hard_delete \in BOOLEAN :
          IF Found(db, spot_id)
          THEN /\ db' = [ db EXCEPT ![spot_id] = DeletedRow ]
               /\ reply' = [ NoReply EXCEPT !.op = "delete", !.spot_id = spot_id,
                                            !.hard_delete = hard_delete,
                                            !.status = 204 ]
          ELSE /\ db' = db
               /\ reply' = [ NoReply EXCEPT !.op = "delete", !.spot_id = spot_id,
                                            !.hard_delete = hard_delete,
                                            !.status = 404 ]
    /\ UNCHANGED << hw, files, scorer_instance, instances, thread, calls,
                    history, request, uploads, health >>
DeletePhotoSpot ==
    /\ \E spot_id \in SpotIds, hard_delete \in BOOLEAN :
          IF Found(db, spot_id)
          THEN /\ db' = IF hard_delete
                        THEN [ db EXCEPT ![spot_id] = DeletedRow ]
                        ELSE [ db EXCEPT ![spot_id].is_active = FALSE ]
               /\ reply' = [ NoReply EXCEPT !.op = "delete", !.spot_id = spot_id,
                                            !.hard_delete = hard_delete,
                                            !.status = 204 ]
          ELSE /\ db' = db
               /\ reply' = [ NoReply EXCEPT !.op = "delete", !.spot_id = spot_id,
                                            !.hard_delete = hard_delete,
                                            !.status = 404 ]
    /\ UNCHANGED << hw, files, scorer_instance, instances, thread, calls,
                    history, request, uploads, health >>

\* radius_km of the nearby query
NearbyRadii == { 10, 100 }

\* lat_delta = radius_km / 111.0, in hundredths of a degree; at latitude 0
\* lon_delta is the same (cos 0 = 1)
Delta(radius_km) == (radius_km * 100) \div 111

\* GET /nearby/ from latitude 0, longitude 0: active rows in the bounding box
GetNearbySpots ==
    /\ \E radius_km \in NearbyRadii :
          reply' = [ NoReply EXCEPT
                       !.op = "nearby", !.status = 200,
                       !.spots = { i \in DOMAIN db :
                                     /\ Found(db, i)
                                     /\ db[i].is_active = TRUE
                                     /\ db[i].latitude >= - Delta(radius_km)
                                     /\ db[i].latitude <= Delta(radius_km)
                                     /\ db[i].longitude >= - Delta(radius_km)
                                     /\ db[i].longitude <= Delta(radius_km) } ]
    /\ UNCHANGED << hw, files, scorer_instance, instances, thread, calls,
                    history, request, db, uploads, health >>

NextSpots ==
    \/ CreatePhotoSpot
    \/ ListPhotoSpots
    \/ GetPhotoSpot
    \/ UpdatePhotoSpot
    \/ DeletePhotoSpot
    \/ GetNearbySpots

SpecSpots == Init /\ [][NextSpots]_vars

(***************************************************************************)
(* Work done by an evaluation, and the shared scorer's immutability.       *)
(***************************************************************************)
\* C21: an evaluation on the detailed path encodes the image once and
\* computes six similarities, each once: quick (reused in the weighted score),
\* technical, composition, lighting, the category's and negative.
C21_DetailedSixSimilarities ==
    \A t \in Threads :
        (thread[t].pc = "calibrate"
           \/ (thread[t].pc = "returned"
                 /\ thread[t].result.evaluation_method = METHOD_DETAILED)) =>
            LET computed == thread[t].computed IN
                /\ thread[t].encoded = 1
                /\ Len(computed) = 6
                /\ \A i, j \in 1..6 : computed[i] = computed[j] => i = j
                /\ { computed[i] : i \in { 1, 2, 3, 4, 6 } }
                       = { "quick", "technical", "composition", "lighting",
                           "negative" }
                /\ computed[5] \in { CategoryTag(key) : key \in CategoryKeys }

\* A detailed evaluation of a "Sunset" image has returned.
C21_Witness ==
    /\ thread[1].pc = "returned"
    /\ thread[1].result.evaluation_method = METHOD_DETAILED
    /\ thread[1].computed[5] = "category_sunset"
    /\ thread[1].encoded = 1

\* C22: a scorer object's model and preprocessing are loaded once, at
\* construction, and its prompts are encoded once: one load and at most twelve
\* text batches, exactly twelve once it is built, whatever evaluations ran.
C22_LoadedOncePerInstance ==
    \A i \in DOMAIN instances :
        /\ instances[i].loads = 1
        /\ instances[i].text_batches <= 12
        /\ instances[i].attrs = ScorerAttributes => instances[i].text_batches = 12

\* Two evaluations have finished on the one scorer object.
C22_Witness ==
    /\ Len(instances) = 1
    /\ instances[1].loads = 1
    /\ \A t \in { 1, 2 } :
           thread[t].pc = "returned" /\ thread[t].result.kind = "ok"

\* A step of evaluate_image by caller t.
EvaluationStep(t) ==
    /\ thread[t].pc \in { "encode_image", "quick_filter", "early_exit",
                          "detailed", "calibrate" }
    /\ thread'[t] # thread[t]

\* C23: no step of evaluate_image, on either path, succeeding or raising,
\* changes a scorer object or the global: the model and the cached embeddings
\* are only read once constructed.
C23_CacheReadOnly ==
    [][ \A t \in Threads :
          EvaluationStep(t) =>
              /\ \A i \in DOMAIN instances :
                     instances[i].attrs = ScorerAttributes =>
                         instances'[i] = instances[i]
              /\ instances'[thread[t].scorer] = instances[thread[t].scorer]
              /\ Len(instances') = Len(instances)
              /\ scorer_instance' = scorer_instance ]_vars

\* Two evaluations are running at once on the same scorer object.
C23_Witness ==
    /\ thread[1].pc = "detailed"
    /\ thread[2].pc \in { "quick_filter", "early_exit" }
    /\ thread[1].scorer = thread[2].scorer
    /\ thread[1].scorer # None

\* C24: mapping_tier names the branch that mapped the score: "poor" exactly
\* for weighted < 0.23, "good" exactly for 0.23 <= weighted < 0.26,
\* "excellent" exactly for weighted >= 0.26; weighted 0.20 gives 54.3, "poor".
C24_TierNamesBranch ==
    \A h \in DetailedExits :
        LET b == h.outcome.breakdown
            w == b.weighted_raw
            unclamped(x) == x - b.negative_penalty
            clamped(x) == Max(30 * ScoreUnit, Min(98 * ScoreUnit, unclamped(x)))
        IN  /\ b.mapping_tier \in { "poor", "good", "excellent" }
            /\ b.mapping_tier = "poor" <=> w < 2300
            /\ b.mapping_tier = "good" <=> (w >= 2300 /\ w < 2600)
            /\ b.mapping_tier = "excellent" <=> w >= 2600
            /\ b.mapping_tier = "poor" => b.aesthetic_score = clamped(PoorBranch(w))
            /\ b.mapping_tier = "good" => b.aesthetic_score = clamped(GoodBranch(w))
            /\ b.mapping_tier = "excellent" =>
                   b.aesthetic_score = clamped(ExcellentBranch(w))
            /\ (w = 2000 /\ b.negative_penalty = 0) =>
                   /\ b.mapping_tier = "poor"
                   /\ 10 * h.outcome.aesthetic_score = 543 * ScoreUnit

\* The scenario: weighted 0.20, no penalty, score 54.3, tier "poor".
C24_Witness ==
    \E h \in DetailedExits :
        /\ h.outcome.breakdown.weighted_raw = 2000
        /\ h.outcome.breakdown.negative_penalty = 0
        /\ h.outcome.breakdown.mapping_tier = "poor"
        /\ 10 * h.outcome.aesthetic_score = 543 * ScoreUnit


\* C25: with no device given, the scorer's device is cuda if cuda is
\* available, otherwise mps if mps is available, otherwise cpu; on every
\* hardware, none included, construction can go past device selection.
C25_DevicePriority ==
    /\ \A i \in DOMAIN instances :
           /\ instances[i].device \in { "cuda", "mps", "cpu" }
           /\ hw.cuda => instances[i].device = "cuda"
           /\ (~hw.cuda /\ hw.mps) => instances[i].device = "mps"
           /\ (~hw.cuda /\ ~hw.mps) => instances[i].device = "cpu"
    /\ thread[1].pc = "init_load" =>
           ENABLED (InitLoad(1) /\ thread'[1].pc = "encode_quick")

\* A scorer was constructed on a machine with neither cuda nor mps.
C25_Witness ==
    /\ ~hw.cuda
    /\ ~hw.mps
    /\ Len(instances) = 1
    /\ instances[1].device = "cpu"


\* Both evaluations of the pair took the detailed path and have returned.
PairDetailed ==
    \A t \in { 1, 2 } :
        /\ thread[t].pc = "returned"
        /\ thread[t].result.kind = "ok"
        /\ thread[t].result.evaluation_method = METHOD_DETAILED

\* C26: on the detailed path, for the same negative_score, the score is
\* non-decreasing in the weighted raw score: w1 <= w2 gives
\* score(w1) <= score(w2), across the breakpoints and both clamps.
C26_MonotoneInWeighted ==
    PairDetailed =>
        \A t, u \in { 1, 2 } :
            LET b1 == thread[t].result.breakdown
                b2 == thread[u].result.breakdown
            IN  (b1.negative_raw = b2.negative_raw
                   /\ b1.weighted_raw <= b2.weighted_raw) =>
                    /\ b1.aesthetic_score <= b2.aesthetic_score
                    /\ thread[t].result.aesthetic_score
                           <= thread[u].result.aesthetic_score

\* Two weighted scores on opposite sides of both breakpoints, same negative.
C26_Witness ==
    /\ PairDetailed
    /\ thread[1].result.breakdown.negative_raw
           = thread[2].result.breakdown.negative_raw
    /\ thread[1].result.breakdown.weighted_raw < W(avg_sim)
    /\ thread[2].result.breakdown.weighted_raw >= W(good_sim)
    /\ thread[1].result.aesthetic_score < thread[2].result.aesthetic_score


\* The request was answered with an error status.
UploadFailed == request.pc = "done" /\ request.status # 201

\* C27: a failed upload leaves no files and no record behind: an invalid
\* image answers 400 with the saved file removed and no PhotoSpot created, a
\* failed commit answers 500 with the photo and the thumbnail removed.
C27_FailedUploadLeavesNothing ==
    UploadFailed =>
        /\ request.file_path \notin DOMAIN files
        /\ request.thumbnail_path \notin DOMAIN files
        /\ \A i \in DOMAIN db : db[i].image_url # request.file_path
        /\ request.detail = "Invalid image file" => request.status = 400
        /\ request.detail = "Database error" => request.status = 500


\* The id was given to a row that has been permanently deleted.
HardDeleted(table, spot_id) ==
    /\ spot_id \in DOMAIN table
    /\ table[spot_id] = DeletedRow

\* C28: delete_photo_spot without hard_delete keeps the row with is_active
\* false: it is absent from the default listing and from nearby results and
\* still found by id; only hard_delete removes the row, and from then on every
\* get, update or delete of that id answers 404.
C28_SoftDeleteByDefault ==
    [][ LET spot_id == reply'.spot_id IN
        /\ (reply'.op = "delete" /\ Found(db, spot_id) /\ ~ reply'.hard_delete) =>
               /\ reply'.status = 204
               /\ Found(db', spot_id)
               /\ db' = [ db EXCEPT ![spot_id].is_active = FALSE ]
        /\ (reply'.op = "delete" /\ Found(db, spot_id) /\ reply'.hard_delete) =>
               /\ reply'.status = 204
               /\ HardDeleted(db', spot_id)
        /\ (reply'.op \in { "list", "nearby" } /\ reply'.is_active) =>
               \A i \in DOMAIN db' :
                   (Found(db', i) /\ ~ db'[i].is_active) => i \notin reply'.spots
        /\ (reply'.op = "list" /\ reply'.is_active) =>
               \A i \in DOMAIN db' :
                   (Found(db', i) /\ db'[i].is_active) => i \in reply'.spots
        /\ (reply'.op = "get" /\ Found(db', spot_id)) =>
               reply'.status = 200 /\ reply'.spots = { spot_id }
        /\ \A i \in DOMAIN db :
               /\ (Found(db, i) /\ ~ Found(db', i)) =>
                      /\ reply'.op = "delete"
                      /\ reply'.hard_delete
                      /\ spot_id = i
               /\ HardDeleted(db, i) =>
                      /\ HardDeleted(db', i)
                      /\ i \notin reply'.spots
                      /\ (reply'.op \in { "get", "update", "delete" }
                            /\ spot_id = i) => reply'.status = 404
      ]_vars

\* A get has just found a row that is inactive, next to a permanently
\* deleted one.
C28_Witness ==
    /\ reply.op = "get"
    /\ reply.status = 200
    /\ Found(db, reply.spot_id)
    /\ ~ db[reply.spot_id].is_active
    /\ \E i \in DOMAIN db : HardDeleted(db, i)

====
